---- MODULE Spec2Model ----
(***************************************************************************)
(* A model of the Groth16 aggregation library: the aggregate proof's byte  *)
(* layout and structural check (src/proof.rs), the commitment keys and     *)
(* pair commitments (src/commitment.rs) and the inner-product primitives   *)
(* (src/ip.rs).                                                            *)
(*                                                                         *)
(* Group elements are modelled by their discrete logarithm: an element of  *)
(* G1, G2 or GT is a number in 0..NumElems-1.  On the wire an element is a *)
(* fixed-width little-endian byte string; a byte string whose value is not *)
(* below NumElems is not a valid element.                                  *)
(***************************************************************************)
EXTENDS Integers, Sequences, FiniteSets, TLC

VARIABLES
  \* -- the aggregate proof, its serialization and its structural check
  proof,      \* the AggregateProof in memory
  sink,       \* the writer handed to write: [limited, cap]
  buf,        \* the bytes in the sink, later the source handed to read
  wres,       \* outcome of write: "none", "ok", "Serialization", "panic"
  tampered,   \* what was done to buf after the write: "no", "trailing", "corrupt"
  rres,       \* outcome of read: [status, pos, proof | detail]
  pres,       \* outcome of parsing_check(proof): "none", "Ok" or the error text
  \* -- a commitment key and the operations on it
  key,        \* the Key: [a, b]
  ksplit,     \* outcome of key.split(at): [status, at, left, right]
  kcomp,      \* outcome of left.compress(&right, &x): [status, x, key]
  kscale,     \* outcome of key.scale(&s_vec): [status, s_vec, key]
  \* -- the inner-product primitives
  ipin,       \* the two vectors handed to the primitive: [left, right]
  ipres,      \* outcome of the call: [op, status, val]
  \* -- two calls of a commitment function on the same inputs
  cin,        \* the inputs: [fn, vkey, wkey, a, b]
  slots,      \* per call, per parallel task: its result, or [status |-> "pending"]
  order,      \* per call, the tasks in the order they finished
  cout,       \* per call, what the call returned, or [status |-> "none"]
  \* -- the size a GipaProof announces for its serialization
  ssize,      \* outcome of gipa.serialized_size(): [status, size]
  \* -- the structural check of a proof that was read
  prres       \* outcome of parsing_check on the proof read returned, or "none"

proofVars == <<proof, sink, buf, wres, tampered, rres, pres>>
keyVars == <<key, ksplit, kcomp, kscale>>
ipVars == <<ipin, ipres>>
commitVars == <<cin, slots, order, cout>>
sizeVars == <<ssize>>
readCheckVars == <<prres>>
vars == <<proofVars, keyVars, ipVars, commitVars, sizeVars, readCheckVars>>
\* what the operations of one part leave alone
notProofVars == <<keyVars, ipVars, commitVars, sizeVars, readCheckVars>>
notKeyVars == <<proofVars, ipVars, commitVars, sizeVars, readCheckVars>>
notIpVars == <<proofVars, keyVars, commitVars, sizeVars, readCheckVars>>
notCommitVars == <<proofVars, keyVars, ipVars, sizeVars, readCheckVars>>
notSizeVars == <<proofVars, keyVars, ipVars, commitVars, readCheckVars>>
notReadCheckVars == <<proofVars, keyVars, ipVars, commitVars, sizeVars>>

\* ------------------------------------------------------------- bounds
\* number of distinct elements per group
NumElems == 3
\* width in bytes of a serialized G1, G2 and GT element (scaled down; the
\* three widths differ, as the compressed widths of the curve do)
G1Bytes == 1
G2Bytes == 2
GTBytes == 3
\* longest common length of the level-indexed vectors of a small input proof
MaxLen == 4
\* capacity of the small (failing) sink
SmallSink == 7
\* most bytes appended after a written proof
MaxTrailing == 2
\* number of seeds the elements of an input proof are derived from
NumSeeds == 1

\* longest vector of a commitment key
MaxKeyLen == 4
\* longest vector handed to a commitment or to an inner-product primitive
MaxVec == 2

\* ---------------------------------------------------- program constants
\* order of the groups G1, G2, GT and of the scalar field (scaled down)
GroupOrder == 5
\* width of the serialized u32 nproofs
U32Bytes == 4
\* srs::MAX_SRS_SIZE
MAX_SRS_SIZE == 1048576

\* ------------------------------------------------------------ helpers
\* The element of a one-element set.  Only({ e(x) : x \in {a} }) is e(a) with
\* a evaluated once: it stands for `let x = a; e(x)`.
Only(S) == CHOOSE x \in S : TRUE

RECURSIVE Pow2(_)
Pow2(k) == IF k = 0 THEN 1 ELSE 2 * Pow2(k - 1)

RECURSIVE FloorLog2(_)
FloorLog2(n) == IF n < 2 THEN 0 ELSE 1 + FloorLog2(n \div 2)

\* u32::is_power_of_two
is_power_of_two(n) == n > 0 /\ Pow2(FloorLog2(n)) = n

\* `n as f32`: round to nearest, ties to even, on a 24-bit significand
AsF32(n) ==
  LET k == FloorLog2(n) IN
  IF k < 24 THEN n
  ELSE LET q    == Pow2(k - 23)
           hi   == n \div q
           lo   == n % q
           half == q \div 2
           up   == lo > half \/ (lo = half /\ hi % 2 = 1)
       IN (IF up THEN hi + 1 ELSE hi) * q

\* f32::log2 of an integer-valued f32 v >= 1, followed by f32::ceil.
\* log2 is exact on a power of two.  Otherwise 2^k < v < 2^(k+1) and the
\* correctly rounded logarithm is k itself when log2(v / 2^k) is at most half
\* an ulp of k: for 16 <= k < 32 half an ulp is 2^-20, which is reached by the
\* significands 1 + m * 2^-23 with m <= 5.
Log2Ceil(v) ==
  LET k == FloorLog2(v)
      j == v - Pow2(k)
      m == IF k >= 23 THEN j \div Pow2(k - 23) ELSE j * Pow2(23 - k)
  IN IF j = 0 THEN k
     ELSE IF k >= 16 /\ m <= 5 THEN k
     ELSE k + 1

\* `(n as f32).log2().ceil() as usize`; log2(0) is -inf, which the cast
\* saturates to 0
F32Log2CeilUsize(n) == IF n = 0 THEN 0 ELSE Log2Ceil(AsF32(n))

\* GipaProof::log_proofs
log_proofs(nproofs) == F32Log2CeilUsize(nproofs)

\* ------------------------------------------------------- proof values
\* the i-th element derived from a seed
Elem(seed, i) == (seed + i) % NumElems
\* commitment::Output(T, U)
Output(t, u) == <<t, u>>

\* an entry of comms_ab / comms_c: a pair of outputs
CommEntry(seed, i) ==
  << Output(Elem(seed, i), Elem(seed, i + 1)),
     Output(Elem(seed, 2 * i), Elem(seed, i + 2)) >>
\* an entry of z_ab (a GT pair) or z_c (a G1 pair)
PairEntry(seed, i) == << Elem(seed, i), Elem(seed, 2 * i + 1) >>

\* an AggregateProof with the given nproofs and vector lengths
MkProof(n, lens, seed) ==
  [ com_ab |-> Output(Elem(seed, 0), Elem(seed, 1)),
    com_c  |-> Output(Elem(seed, 2), Elem(seed, 0)),
    ip_ab  |-> Elem(seed, 1),
    agg_c  |-> Elem(seed, 2),
    tmipp  |->
      [ gipa |->
          [ nproofs    |-> n,
            comms_ab   |-> [i \in 1..lens[1] |-> CommEntry(seed, i)],
            comms_c    |-> [i \in 1..lens[2] |-> CommEntry(seed + 1, i)],
            z_ab       |-> [i \in 1..lens[3] |-> PairEntry(seed, i)],
            z_c        |-> [i \in 1..lens[4] |-> PairEntry(seed + 1, i)],
            final_a    |-> Elem(seed, 0),
            final_b    |-> Elem(seed, 1),
            final_c    |-> Elem(seed, 2),
            final_vkey |-> << Elem(seed, 1), Elem(seed, 2) >>,
            final_wkey |-> << Elem(seed, 2), Elem(seed, 0) >> ],
        vkey_opening |-> << Elem(seed, 0), Elem(seed, 2) >>,
        wkey_opening |-> << Elem(seed, 1), Elem(seed, 0) >> ] ]

\* ------------------------------------------------------ byte encoding
\* little-endian bytes of v on w bytes
RECURSIVE LEBytes(_, _)
LEBytes(v, w) == IF w = 0 THEN <<>> ELSE <<v % 256>> \o LEBytes(v \div 256, w - 1)

\* value of a little-endian byte string
RECURSIVE LEValue(_)
LEValue(bs) == IF bs = <<>> THEN 0 ELSE Head(bs) + 256 * LEValue(Tail(bs))

RECURSIVE ConcatAll(_)
ConcatAll(ss) == IF ss = <<>> THEN <<>> ELSE Head(ss) \o ConcatAll(Tail(ss))

Width(t) == CASE t = "G1" -> G1Bytes [] t = "G2" -> G2Bytes [] t = "GT" -> GTBytes

SerU32(n) == LEBytes(n, U32Bytes)
SerG1(e) == LEBytes(e, G1Bytes)
SerG2(e) == LEBytes(e, G2Bytes)
SerGT(e) == LEBytes(e, GTBytes)
SerOutputSwapped(o) == SerGT(o[2]) \o SerGT(o[1])
\* derived CanonicalSerialize of Output: its two fields in order
SerOutput(o) == SerGT(o[1]) \o SerGT(o[2])

\* ------------------------------------------------------------- writer
\* The sink `out`: a Vec<u8> never fails; a limited out fails with an I/O error
\* once its capacity is used up, keeping the bytes written before.
\* A writer state is [buf, status], status one of "ok", "IoError", "panic";
\* every later step of a failed write is skipped (the ? operator, the unwind).
PutBytes(st, bytes, out) ==
  Only({ IF s.status # "ok" THEN s
         ELSE IF out.limited /\ Len(s.buf) + Len(bytes) > out.cap
              THEN [buf |-> s.buf \o SubSeq(bytes, 1, out.cap - Len(s.buf)),
                    status |-> "IoError"]
              ELSE [buf |-> s.buf \o bytes, status |-> "ok"]
         : s \in {st} })

AssertEqOff(st, a, b) == st
\* assert_eq!(a, b)
AssertEq(st, a, b) ==
  Only({ IF s.status # "ok" THEN s
         ELSE IF a = b THEN s ELSE [s EXCEPT !.status = "panic"]
         : s \in {st} })

\* GipaProof::serialized_size: the sizes of the first entry of each vector
\* (indexing an empty vector panics) and of the final values, all inside the
\* product with log_proofs
serialized_size(g) ==
  IF Len(g.comms_ab) = 0 \/ Len(g.comms_c) = 0 \/ Len(g.z_ab) = 0 \/ Len(g.z_c) = 0
  THEN [status |-> "panic"]
  ELSE [status |-> "ok",
        size |-> U32Bytes
                 + log_proofs(g.nproofs)
                   * (2 * GTBytes + 2 * GTBytes       \* comms_ab[0].0, .1
                      + 2 * GTBytes + 2 * GTBytes     \* comms_c[0].0, .1
                      + GTBytes + GTBytes             \* z_ab[0].0, .1
                      + G1Bytes + G1Bytes             \* z_c[0].0, .1
                      + G1Bytes + G2Bytes + G1Bytes   \* final_a, final_b, final_c
                      + 2 * G2Bytes + 2 * G1Bytes)]   \* final_vkey, final_wkey

\* GipaProof::serialize_with_mode
GipaSerialize(st, g, out) ==
  LET lp == log_proofs(g.nproofs)
      s1 == PutBytes(st, SerU32(g.nproofs), out)
      s2 == AssertEq(s1, Len(g.comms_ab), lp)
      s3 == PutBytes(s2, ConcatAll([i \in 1..Len(g.comms_ab) |->
               SerOutput(g.comms_ab[i][1]) \o SerOutput(g.comms_ab[i][2])]), out)
      s4 == AssertEq(s3, Len(g.comms_c), lp)
      s5 == PutBytes(s4, ConcatAll([i \in 1..Len(g.comms_c) |->
               SerOutput(g.comms_c[i][1]) \o SerOutput(g.comms_c[i][2])]), out)
      s6 == AssertEq(s5, Len(g.z_ab), lp)
      s7 == PutBytes(s6, ConcatAll([i \in 1..Len(g.z_ab) |->
               SerGT(g.z_ab[i][1]) \o SerGT(g.z_ab[i][2])]), out)
      s8 == AssertEq(s7, Len(g.z_c), lp)
      s9 == PutBytes(s8, ConcatAll([i \in 1..Len(g.z_c) |->
               SerG1(g.z_c[i][1]) \o SerG1(g.z_c[i][2])]), out)
      s10 == PutBytes(s9, SerG1(g.final_a), out)
      s11 == PutBytes(s10, SerG2(g.final_b), out)
      s12 == PutBytes(s11, SerG1(g.final_c), out)
      s13 == PutBytes(s12, SerG2(g.final_vkey[1]) \o SerG2(g.final_vkey[2]), out)
  IN PutBytes(s13, SerG1(g.final_wkey[1]) \o SerG1(g.final_wkey[2]), out)

\* derived CanonicalSerialize of AggregateProof and TippMippProof: the fields
\* in declaration order
AggSerialize(p, out) ==
  LET s0 == [buf |-> <<>>, status |-> "ok"]
      s1 == PutBytes(s0, SerOutput(p.com_ab), out)
      s2 == PutBytes(s1, SerOutput(p.com_c), out)
      s3 == PutBytes(s2, SerGT(p.ip_ab), out)
      s4 == PutBytes(s3, SerG1(p.agg_c), out)
      s5 == GipaSerialize(s4, p.tmipp.gipa, out)
      s6 == PutBytes(s5, SerG2(p.tmipp.vkey_opening[1])
                           \o SerG2(p.tmipp.vkey_opening[2]), out)
  IN PutBytes(s6, SerG1(p.tmipp.wkey_opening[1])
                    \o SerG1(p.tmipp.wkey_opening[2]), out)

\* AggregateProof::write: the outcome seen by the caller
\* ("ok", "Serialization" for a returned error, "panic" for an abort)
write(p, out) ==
  Only({ [buf |-> s.buf,
          status |-> IF s.status = "IoError" THEN "Serialization" ELSE s.status]
         : s \in {AggSerialize(p, out)} })

\* ------------------------------------------------------------- reader
\* A schema is a sequence of blocks [t, n]: n elements of type t ("G1", "G2",
\* "GT"), read one after the other.
Blk(t, n) == [t |-> t, n |-> n]

\* Reads one block from position pos of src, element by element.  A short
\* source is an I/O error (unexpected end of file), bytes that are no element
\* are InvalidData; the first failure ends the read.
ReadBlockAt(src, pos, blk) ==
  LET w     == Width(blk.t)
      room  == (Len(src) - pos) \div w
      avail == IF room < blk.n THEN room ELSE blk.n
      val(j) == LEValue(SubSeq(src, pos + (j - 1) * w + 1, pos + j * w))
      bad   == {j \in 1..avail : val(j) >= NumElems}
  IN IF bad # {}
     THEN LET j == CHOOSE x \in bad : \A y \in bad : x <= y
          IN [status |-> "InvalidData", vals |-> <<>>, pos |-> pos + j * w]
     ELSE IF avail < blk.n
     THEN [status |-> "IoError", vals |-> <<>>, pos |-> Len(src)]
     ELSE [status |-> "ok", vals |-> [j \in 1..blk.n |-> val(j)],
           pos |-> pos + blk.n * w]
ReadBlock(src, pos, blk) == Only({ ReadBlockAt(src, p, blk) : p \in {pos} })

\* Reads the blocks of a schema in order; vals are the elements read.
RECURSIVE ReadElems(_, _, _, _, _)
ReadElems(src, pos, schema, i, acc) ==
  IF i > Len(schema) THEN [status |-> "ok", vals |-> acc, pos |-> pos]
  ELSE Only({ IF r.status # "ok"
              THEN [status |-> r.status, vals |-> a, pos |-> r.pos]
              ELSE ReadElems(src, r.pos, schema, i + 1, a \o r.vals)
              : r \in {ReadBlock(src, pos, schema[i])}, a \in {acc} })

\* the elements GipaProof::deserialize_with_mode reads after nproofs
GipaSchema(lp) ==
  << Blk("GT", 4 * lp),     \* comms_ab: lp pairs of outputs
     Blk("GT", 4 * lp),     \* comms_c
     Blk("GT", 2 * lp),     \* z_ab: lp pairs
     Blk("G1", 2 * lp),     \* z_c
     Blk("G1", 1), Blk("G2", 1), Blk("G1", 1),   \* final_a, final_b, final_c
     Blk("G2", 2),          \* final_vkey
     Blk("G1", 2) >>        \* final_wkey

\* the loop that reads z_c ends one entry early
GipaOfValsShort(nproofs, lp, v) ==
  LET comm(base, i) == << Output(v[base + 4 * i - 3], v[base + 4 * i - 2]),
                          Output(v[base + 4 * i - 1], v[base + 4 * i]) >>
      pr(base, i)   == << v[base + 2 * i - 1], v[base + 2 * i] >>
      f == 12 * lp
  IN [ nproofs    |-> nproofs,
       comms_ab   |-> [i \in 1..lp |-> comm(0, i)],
       comms_c    |-> [i \in 1..lp |-> comm(4 * lp, i)],
       z_ab       |-> [i \in 1..lp |-> pr(8 * lp, i)],
       z_c        |-> [i \in 1..(lp - 1) |-> pr(10 * lp, i)],
       final_a    |-> v[f + 1],
       final_b    |-> v[f + 2],
       final_c    |-> v[f + 3],
       final_vkey |-> << v[f + 4], v[f + 5] >>,
       final_wkey |-> << v[f + 6], v[f + 7] >> ]

\* the GipaProof built from the values read
GipaOfVals(nproofs, lp, v) ==
  LET comm(base, i) == << Output(v[base + 4 * i - 3], v[base + 4 * i - 2]),
                          Output(v[base + 4 * i - 1], v[base + 4 * i]) >>
      pr(base, i)   == << v[base + 2 * i - 1], v[base + 2 * i] >>
      f == 12 * lp
  IN [ nproofs    |-> nproofs,
       comms_ab   |-> [i \in 1..lp |-> comm(0, i)],
       comms_c    |-> [i \in 1..lp |-> comm(4 * lp, i)],
       z_ab       |-> [i \in 1..lp |-> pr(8 * lp, i)],
       z_c        |-> [i \in 1..lp |-> pr(10 * lp, i)],
       final_a    |-> v[f + 1],
       final_b    |-> v[f + 2],
       final_c    |-> v[f + 3],
       final_vkey |-> << v[f + 4], v[f + 5] >>,
       final_wkey |-> << v[f + 6], v[f + 7] >> ]

\* GipaProof::deserialize_with_mode
GipaDeserialize(src, pos) ==
  IF pos + U32Bytes > Len(src)
  THEN [status |-> "IoError", pos |-> Len(src)]
  ELSE LET nproofs == LEValue(SubSeq(src, pos + 1, pos + U32Bytes)) IN
       IF nproofs < 2
       THEN [status |-> "InvalidData", pos |-> pos + U32Bytes]
       ELSE LET lp == log_proofs(nproofs) IN
            Only({ IF r.status # "ok"
                   THEN [status |-> r.status, pos |-> r.pos]
                   ELSE [status |-> "ok", pos |-> r.pos,
                         gipa |-> GipaOfVals(nproofs, lp, r.vals)]
                   : r \in {ReadElems(src, pos + U32Bytes, GipaSchema(lp), 1, <<>>)} })

\* derived CanonicalDeserialize of AggregateProof and TippMippProof
AggDeserialize(src) ==
  Only({
    IF r1.status # "ok" THEN [status |-> r1.status, pos |-> r1.pos]
    ELSE Only({
      IF g.status # "ok" THEN [status |-> g.status, pos |-> g.pos]
      ELSE Only({
        IF r3.status # "ok" THEN [status |-> r3.status, pos |-> r3.pos]
        ELSE [status |-> "ok", pos |-> r3.pos,
              proof |-> [ com_ab |-> Output(r1.vals[1], r1.vals[2]),
                          com_c  |-> Output(r1.vals[3], r1.vals[4]),
                          ip_ab  |-> r1.vals[5],
                          agg_c  |-> r1.vals[6],
                          tmipp  |-> [ gipa |-> g.gipa,
                                       vkey_opening |-> << r3.vals[1], r3.vals[2] >>,
                                       wkey_opening |-> << r3.vals[3], r3.vals[4] >> ] ]]
        : r3 \in {ReadElems(src, g.pos, << Blk("G2", 2), Blk("G1", 2) >>, 1, <<>>)} })
      : g \in {GipaDeserialize(src, r1.pos)} })
    : r1 \in {ReadElems(src, 0, << Blk("GT", 5), Blk("G1", 1) >>, 1, <<>>)} })

readStrict(src) ==
  Only({ IF r.status = "ok" /\ r.pos = Len(src) THEN r
         ELSE [status |-> "Serialization", pos |-> r.pos,
               detail |-> IF r.status = "ok" THEN "InvalidData" ELSE r.status]
         : r \in {AggDeserialize(src)} })

\* AggregateProof::read: Ok(proof), or Error::Serialization(detail); pos is
\* the number of bytes taken from the source
read(src) ==
  Only({ IF r.status = "ok" THEN r
         ELSE [status |-> "Serialization", pos |-> r.pos, detail |-> r.status]
         : r \in {AggDeserialize(src)} })

\* ------------------------------------------------------ parsing_check
parsing_check_sizes_first(p) ==
  LET gipa == p.tmipp.gipa
      ref_len == F32Log2CeilUsize(gipa.nproofs)
      all_same == /\ ref_len = Len(gipa.comms_ab)
                  /\ ref_len = Len(gipa.comms_c)
                  /\ ref_len = Len(gipa.z_ab)
                  /\ ref_len = Len(gipa.z_c)
  IN IF gipa.nproofs < 2 \/ gipa.nproofs > MAX_SRS_SIZE
     THEN "Proof length out of bounds"
     ELSE IF ~all_same THEN "Proof vectors unequal sizes"
     ELSE IF ~is_power_of_two(gipa.nproofs)
     THEN "Proof length not a power of two"
     ELSE "Ok"

parsing_check_no_pow2(p) ==
  LET gipa == p.tmipp.gipa
      ref_len == F32Log2CeilUsize(gipa.nproofs)
      all_same == /\ ref_len = Len(gipa.comms_ab)
                  /\ ref_len = Len(gipa.comms_c)
                  /\ ref_len = Len(gipa.z_ab)
                  /\ ref_len = Len(gipa.z_c)
  IN IF gipa.nproofs < 2 \/ gipa.nproofs > MAX_SRS_SIZE
     THEN "Proof length out of bounds"
     ELSE IF ~all_same THEN "Proof vectors unequal sizes"
     ELSE "Ok"

\* AggregateProof::parsing_check: "Ok", or the text of the InvalidProof error
parsing_check(p) ==
  LET gipa == p.tmipp.gipa
      ref_len == F32Log2CeilUsize(gipa.nproofs)
      all_same == /\ ref_len = Len(gipa.comms_ab)
                  /\ ref_len = Len(gipa.comms_c)
                  /\ ref_len = Len(gipa.z_ab)
                  /\ ref_len = Len(gipa.z_c)
  IN IF gipa.nproofs < 2 \/ gipa.nproofs > MAX_SRS_SIZE
     THEN "Proof length out of bounds"
     ELSE IF ~is_power_of_two(gipa.nproofs)
     THEN "Proof length not a power of two"
     ELSE IF ~all_same THEN "Proof vectors unequal sizes"
     ELSE "Ok"

\* ------------------------------------------- specification: the proof
\* values of nproofs an input proof carries: around 2, powers of two and
\* their neighbours, around MAX_SRS_SIZE, and beyond the f32 significand
NProofsValues ==
  { 0, 1, 2, 3, 4, 8, 14,
    MAX_SRS_SIZE - 1, MAX_SRS_SIZE, MAX_SRS_SIZE + 1,
    2 * MAX_SRS_SIZE, 2 * MAX_SRS_SIZE + 3, 16 * MAX_SRS_SIZE + 1 }
\* the lengths of comms_ab, comms_c, z_ab, z_c: a common length (small, or
\* around log2 of MAX_SRS_SIZE, or log2 of the largest nproofs), and each
\* vector one shorter, equal or one longer
LenValues ==
  (0..MaxLen) \cup ((FloorLog2(MAX_SRS_SIZE) - 1)..(FloorLog2(MAX_SRS_SIZE) + 1))
  \cup {FloorLog2(16 * MAX_SRS_SIZE + 1)}
Deviations == [1..4 -> {-1, 0, 1}]
Lens(l, d) == [i \in 1..4 |-> IF l + d[i] < 0 THEN 0 ELSE l + d[i]]
Seeds == 0..(NumSeeds - 1)
Sinks == { [limited |-> FALSE, cap |-> 0], [limited |-> TRUE, cap |-> SmallSink] }
NoRead == [status |-> "none", pos |-> 0]

InitProof ==
  /\ \E n \in NProofsValues, l \in LenValues, d \in Deviations, seed \in Seeds :
       proof = MkProof(n, Lens(l, d), seed)
  /\ sink \in Sinks
  /\ buf = <<>>
  /\ wres = "none"
  /\ tampered = "no"
  /\ rres = NoRead
  /\ pres = "none"

\* proof.write(&mut sink)
Write ==
  /\ wres = "none"
  /\ \E w \in {write(proof, sink)} : buf' = w.buf /\ wres' = w.status
  /\ UNCHANGED <<proof, sink, tampered, rres, pres, notProofVars>>

\* bytes follow the written proof in the source
AppendTrailing ==
  /\ wres = "ok" /\ rres.status = "none" /\ tampered \in {"no", "trailing"}
  /\ Len(buf) < Len(write(proof, sink).buf) + MaxTrailing
  /\ \E b \in {0, 255} : buf' = Append(buf, b)
  /\ tampered' = "trailing"
  /\ UNCHANGED <<proof, sink, wres, rres, pres, notProofVars>>

\* one byte of the written proof is replaced by a byte that encodes no element
Corrupt ==
  /\ wres = "ok" /\ rres.status = "none" /\ tampered = "no"
  /\ \E i \in {1, 5 * GTBytes + G1Bytes + 1, Len(buf)} :
       /\ i <= Len(buf)
       /\ buf' = [buf EXCEPT ![i] = NumElems]
  /\ tampered' = "corrupt"
  /\ UNCHANGED <<proof, sink, wres, rres, pres, notProofVars>>

\* AggregateProof::read(Cursor::new(&buf))
Read ==
  /\ wres # "none" /\ rres.status = "none"
  /\ rres' = read(buf)
  /\ UNCHANGED <<proof, sink, buf, wres, tampered, pres, notProofVars>>

\* proof.parsing_check()
ParsingCheck ==
  /\ pres = "none"
  /\ pres' = parsing_check(proof)
  /\ UNCHANGED <<proof, sink, buf, wres, tampered, rres, notProofVars>>

NextProof == Write \/ AppendTrailing \/ Corrupt \/ Read \/ ParsingCheck

\* ------------------------------------------------- claims on the proof
\* exact arithmetic, for stating the claims
IsPow2(n) == \E k \in 0..30 : n = Pow2(k)
CeilLog2(n) == IF IsPow2(n) THEN FloorLog2(n) ELSE FloorLog2(n) + 1
VecLens(p) == << Len(p.tmipp.gipa.comms_ab), Len(p.tmipp.gipa.comms_c),
                 Len(p.tmipp.gipa.z_ab), Len(p.tmipp.gipa.z_c) >>
\* the structural invariants of an aggregate proof
StructurallyValid(p) ==
  LET n == p.tmipp.gipa.nproofs IN
  /\ IsPow2(n) /\ 2 <= n /\ n <= MAX_SRS_SIZE
  /\ \A i \in 1..4 : VecLens(p)[i] = CeilLog2(n)
\* the number of bytes of the layout of a proof with L levels
LayoutLen(L) ==
  (5 * GTBytes + G1Bytes) + U32Bytes
  + L * (4 * GTBytes + 4 * GTBytes + 2 * GTBytes + 2 * G1Bytes)
  + (4 * G1Bytes + 3 * G2Bytes) + (2 * G2Bytes + 2 * G1Bytes)

\* C1: a structurally valid proof is written without error to a sink that
\* takes the bytes, and reading the bytes written gives back a proof equal to
\* it in every field.
C1_RoundTrip ==
  StructurallyValid(proof) =>
    /\ (wres # "none" /\ ~sink.limited) => wres = "ok"
    /\ (wres = "ok" /\ tampered = "no" /\ rres.status # "none")
         => (rres.status = "ok" /\ rres.proof = proof)
C1_Witness ==
  /\ StructurallyValid(proof) /\ proof.tmipp.gipa.nproofs = 8
  /\ wres = "ok" /\ tampered = "no" /\ rres.status = "ok"

\* C2: parsing_check returns Ok exactly for the structurally valid proofs,
\* and an InvalidProof error for every other proof.
C2_ParsingCheckIff ==
  pres # "none" =>
    /\ (pres = "Ok") <=> StructurallyValid(proof)
    /\ pres \in { "Ok", "Proof length out of bounds",
                  "Proof length not a power of two", "Proof vectors unequal sizes" }
C2_Witness ==
  /\ pres = "Ok" /\ proof.tmipp.gipa.nproofs = MAX_SRS_SIZE

\* C3: a proof whose nproofs is in [2, MAX_SRS_SIZE] and no power of two fails
\* with "Proof length not a power of two" whatever its vector lengths; a proof
\* whose nproofs is a valid power of two and one of whose vectors has a
\* length other than log2(nproofs) fails with "Proof vectors unequal sizes".
C3_Precedence ==
  LET n == proof.tmipp.gipa.nproofs IN
  (pres # "none" /\ 2 <= n /\ n <= MAX_SRS_SIZE) =>
    /\ ~IsPow2(n) => pres = "Proof length not a power of two"
    /\ (IsPow2(n) /\ \E i \in 1..4 : VecLens(proof)[i] # CeilLog2(n))
         => pres = "Proof vectors unequal sizes"
C3_Witness ==
  /\ proof.tmipp.gipa.nproofs = 14
  /\ VecLens(proof) = <<5, 4, 4, 4>>
  /\ pres = "Proof length not a power of two"

\* a complete, well-formed proof followed by one or more bytes was read
TrailingRead ==
  /\ wres = "ok" /\ tampered = "trailing" /\ rres.status # "none"
  /\ proof.tmipp.gipa.nproofs >= 2

\* C4 (as claimed): reading a complete, well-formed proof followed by one or
\* more additional bytes returns a Serialization error.
C4_TrailingIsError == TrailingRead => rres.status = "Serialization"
\* C4 (amended): reading a complete, well-formed proof followed by additional
\* bytes returns that proof; exactly the proof's bytes are taken from the
\* source and the trailing bytes are left unread.
C4_TrailingIgnored ==
  TrailingRead =>
    /\ rres.status = "ok" /\ rres.proof = proof
    /\ rres.pos = LayoutLen(Len(proof.tmipp.gipa.comms_ab))
    /\ rres.pos < Len(buf)
C4_Witness == TrailingRead /\ rres.status = "ok" /\ Len(buf) = rres.pos + MaxTrailing

\* C10 (as claimed): write never aborts; for every proof it writes the full
\* layout and returns Ok, or returns a Serialization error.
C10_WriteNeverAborts ==
  (wres # "none" /\ tampered = "no") =>
    \/ wres = "ok" /\ Len(buf) = LayoutLen(Len(proof.tmipp.gipa.comms_ab))
    \/ wres = "Serialization"
\* C10 (amended): for a proof whose four level-indexed vectors all have length
\* log_proofs(nproofs), write writes the full layout and returns Ok, or
\* returns a Serialization error; for a proof in which one of them has another
\* length, write aborts on its assertion, unless the sink fails first.
C10_WriteAbortsOnLengths ==
  LET lp == log_proofs(proof.tmipp.gipa.nproofs)
      consistent == \A i \in 1..4 : VecLens(proof)[i] = lp
  IN (wres # "none" /\ tampered = "no") =>
       /\ consistent =>
            \/ wres = "ok" /\ Len(buf) = LayoutLen(lp)
            \/ wres = "Serialization" /\ sink.limited
       /\ ~consistent =>
            \/ wres = "panic"
            \/ wres = "Serialization" /\ sink.limited
C10_Witness ==
  /\ wres = "panic" /\ ~sink.limited
  /\ proof.tmipp.gipa.nproofs = 4
  /\ VecLens(proof) = <<2, 2, 3, 2>>

\* the bytes before the GipaProof: com_ab, com_c, ip_ab, agg_c
HeaderLen == 5 * GTBytes + G1Bytes

\* C11: a proof that deserialization returns has nproofs >= 2 and, in each of
\* comms_ab, comms_c, z_ab and z_c, exactly the least L with 2^L >= nproofs
\* entries; a stream whose nproofs is below 2 is rejected with a
\* serialization error once nproofs is read, before any entry is.
C11_ExactLevels ==
  /\ rres.status = "ok" =>
       LET n == rres.proof.tmipp.gipa.nproofs IN
       /\ n >= 2
       /\ log_proofs(n) = CeilLog2(n)
       /\ \A i \in 1..4 : VecLens(rres.proof)[i] = CeilLog2(n)
  /\ (rres.status # "none" /\ wres = "ok" /\ tampered = "no"
        /\ proof.tmipp.gipa.nproofs < 2) =>
       /\ rres.status = "Serialization" /\ rres.detail = "InvalidData"
       /\ rres.pos = HeaderLen + U32Bytes

\* ------------------------------------ specification: the announced size
InitSize == InitProof /\ ssize = [status |-> "none"]

\* proof.tmipp.gipa.serialized_size(Compress::Yes)
SerializedSize ==
  /\ ssize.status = "none"
  /\ ssize' = serialized_size(proof.tmipp.gipa)
  /\ UNCHANGED notSizeVars

NextSize == Write \/ SerializedSize

\* the bytes after the GipaProof: vkey_opening, wkey_opening
OpeningsLen == 2 * G2Bytes + 2 * G1Bytes
\* the bytes of one level: an entry of comms_ab, comms_c, z_ab and z_c
LevelLen == 4 * GTBytes + 4 * GTBytes + 2 * GTBytes + 2 * G1Bytes
\* the bytes of final_a, final_b, final_c, final_vkey, final_wkey
FinalsLen == G1Bytes + G2Bytes + G1Bytes + 2 * G2Bytes + 2 * G1Bytes

\* C14: for a GipaProof whose four vectors have length
\* L = ceil(log2(nproofs)) >= 1, serialized_size is the number of bytes
\* serialize_with_mode writes: the size of nproofs, L times the size of one
\* entry of each vector, and the final values once.
C14_SizeIsBytesWritten ==
  LET L == CeilLog2(proof.tmipp.gipa.nproofs) IN
  (/\ ssize.status # "none" /\ wres = "ok"
   /\ L >= 1 /\ \A i \in 1..4 : VecLens(proof)[i] = L)
  => /\ ssize.status = "ok"
     /\ ssize.size = Len(buf) - HeaderLen - OpeningsLen
     /\ ssize.size = U32Bytes + L * LevelLen + FinalsLen

\* ------------------- specification: the check of a proof that was read
InitReadCheck == InitProof /\ prres = "none"

\* AggregateProof::read(..)?.parsing_check()
ParsingCheckRead ==
  /\ rres.status = "ok" /\ prres = "none"
  /\ prres' = parsing_check(rres.proof)
  /\ UNCHANGED notReadCheckVars

NextReadCheck == Write \/ AppendTrailing \/ Corrupt \/ Read \/ ParsingCheckRead

\* C15: a proof that read returns has nproofs >= 2 and comms_ab, comms_c,
\* z_ab, z_c all of length log_proofs(nproofs); parsing_check of such a proof
\* returns Ok or fails with "Proof length out of bounds" or "Proof length not
\* a power of two", never with "Proof vectors unequal sizes"; read returns
\* every written proof with nproofs >= 2, whether or not nproofs is a power
\* of two or at most MAX_SRS_SIZE.
C15_ReadLengthsAgree ==
  /\ rres.status = "ok" =>
       /\ rres.proof.tmipp.gipa.nproofs >= 2
       /\ \A i \in 1..4 :
            VecLens(rres.proof)[i] = log_proofs(rres.proof.tmipp.gipa.nproofs)
  /\ prres \in {"none", "Ok", "Proof length out of bounds",
                "Proof length not a power of two"}
  /\ (rres.status # "none" /\ wres = "ok" /\ tampered = "no"
      /\ proof.tmipp.gipa.nproofs >= 2) => rres.status = "ok"
C15_Witness ==
  /\ rres.status = "ok" /\ tampered = "corrupt"
  /\ rres.proof.tmipp.gipa.nproofs = MAX_SRS_SIZE + NumElems
  /\ ~IsPow2(rres.proof.tmipp.gipa.nproofs)
  /\ \A i \in 1..4 : VecLens(rres.proof)[i] = FloorLog2(MAX_SRS_SIZE) + 1
  /\ prres = "Proof length out of bounds"

\* ================================================== commitment keys
\* Group elements are written by their discrete logarithm: the group
\* operation is addition modulo GroupOrder, exponentiation by a scalar is
\* multiplication modulo GroupOrder.
Scalars == 0..(GroupOrder - 1)
\* ap.mul(si)
GMul(p, si) == (p * si) % GroupOrder
\* ra.add_assign(left_a)
GAdd(p, q) == (p + q) % GroupOrder

Min(S) == CHOOSE x \in S : \A y \in S : x <= y

\* an input vector of points or scalars
VecOf(len, seed) == [i \in 1..len |-> (seed + i * (seed + 1)) % GroupOrder]

\* Vec::split_off(at) on a vector of length len: defined for at <= len
SplitOffPanics(v, at) == at > Len(v)

\* the left part of a is truncated one entry too early
split_early(k, at) ==
  IF SplitOffPanics(k.a, at) \/ SplitOffPanics(k.b, at)
  THEN [status |-> "panic", at |-> at]
  ELSE LET cut == IF at > 0 THEN at - 1 ELSE 0 IN
       [status |-> "ok", at |-> at,
        left  |-> [a |-> SubSeq(k.a, 1, cut), b |-> SubSeq(k.b, 1, at)],
        right |-> [a |-> SubSeq(k.a, at + 1, Len(k.a)),
                   b |-> SubSeq(k.b, at + 1, Len(k.b))]]

\* Key::split: Vec::split_off panics when at is past the end of the vector
split(k, at) ==
  IF SplitOffPanics(k.a, at) \/ SplitOffPanics(k.b, at)
  THEN [status |-> "panic", at |-> at]
  ELSE [status |-> "ok", at |-> at,
        left  |-> [a |-> SubSeq(k.a, 1, at), b |-> SubSeq(k.b, 1, at)],
        right |-> [a |-> SubSeq(k.a, at + 1, Len(k.a)),
                   b |-> SubSeq(k.b, at + 1, Len(k.b))]]

compress_swapped(left, right, scale) ==
  IF Len(left.a) # Len(right.a) THEN [status |-> "InvalidKeyLength"]
  ELSE LET n == Min({Len(left.a), Len(left.b), Len(right.a), Len(right.b)}) IN
       [status |-> "ok",
        key |-> [a |-> [i \in 1..n |-> GAdd(GMul(left.a[i], scale), right.a[i])],
                 b |-> [i \in 1..n |-> GAdd(GMul(left.b[i], scale), right.b[i])]]]

\* Key::compress: the zip of the four vectors ends with the shortest
compress(left, right, scale) ==
  IF Len(left.a) # Len(right.a) THEN [status |-> "InvalidKeyLength"]
  ELSE LET n == Min({Len(left.a), Len(left.b), Len(right.a), Len(right.b)}) IN
       [status |-> "ok",
        key |-> [a |-> [i \in 1..n |-> GAdd(GMul(right.a[i], scale), left.a[i])],
                 b |-> [i \in 1..n |-> GAdd(GMul(right.b[i], scale), left.b[i])]]]

\* Key::scale: the zip of a, b and s_vec ends with the shortest
scale(k, s_vec) ==
  IF Len(k.a) # Len(s_vec) THEN [status |-> "InvalidKeyLength"]
  ELSE LET n == Min({Len(k.a), Len(k.b), Len(s_vec)}) IN
       [status |-> "ok",
        key |-> [a |-> [i \in 1..n |-> GMul(k.a[i], s_vec[i])],
                 b |-> [i \in 1..n |-> GMul(k.b[i], s_vec[i])]]]

\* ------------------------------------------- specification: the keys
KeySeeds == 0..(NumSeeds)
InitKey ==
  /\ \E la \in 0..MaxKeyLen, lb \in 0..MaxKeyLen, seed \in KeySeeds :
       key = [a |-> VecOf(la, seed), b |-> VecOf(lb, seed + 2)]
  /\ ksplit = [status |-> "none"]
  /\ kcomp = [status |-> "none"]
  /\ kscale = [status |-> "none"]

\* key.clone().split(at)
Split ==
  /\ ksplit.status = "none"
  /\ \E at \in 0..(MaxKeyLen + 1) : ksplit' = split(key, at)
  /\ UNCHANGED <<key, kcomp, kscale, notKeyVars>>

\* left.compress(&right, &x) on the two parts of the split
Compress ==
  /\ ksplit.status = "ok" /\ kcomp.status = "none"
  /\ \E x \in Scalars :
       kcomp' = compress(ksplit.left, ksplit.right, x) @@ [x |-> x]
  /\ UNCHANGED <<key, ksplit, kscale, notKeyVars>>

\* key.scale(&s_vec)
Scale ==
  /\ kscale.status = "none"
  /\ \E ls \in 0..(MaxKeyLen + 1), seed \in KeySeeds :
       LET s_vec == VecOf(ls, seed + 1) IN
       kscale' = scale(key, s_vec) @@ [s_vec |-> s_vec]
  /\ UNCHANGED <<key, ksplit, kcomp, notKeyVars>>

NextKey == Split \/ Compress \/ Scale

\* ------------------------------------------------- claims on the keys
\* C6: a key of even length len split at len/2 into (left, right) compresses,
\* for any scalar x, without error into a key whose a and b have length len/2
\* and whose i-th entries are left.a[i] + x * right.a[i] and
\* left.b[i] + x * right.b[i].
C6_HalvingLaw ==
  LET len == Len(key.a)
      h   == len \div 2
  IN (/\ Len(key.b) = len /\ len % 2 = 0
      /\ ksplit.status = "ok" /\ ksplit.at = h
      /\ kcomp.status # "none")
     => /\ kcomp.status = "ok"
        /\ Len(kcomp.key.a) = h /\ Len(kcomp.key.b) = h
        /\ \A i \in 1..h :
             /\ kcomp.key.a[i] = (key.a[i] + kcomp.x * key.a[h + i]) % GroupOrder
             /\ kcomp.key.b[i] = (key.b[i] + kcomp.x * key.b[h + i]) % GroupOrder
C6_Witness ==
  /\ Len(key.a) = 4 /\ Len(key.b) = 4
  /\ ksplit.status = "ok" /\ ksplit.at = 2
  /\ kcomp.status = "ok" /\ kcomp.x = 2
  /\ kcomp.key.a # ksplit.left.a

\* C12: compress returns InvalidKeyLength whenever left and right differ in
\* the length of their a vectors or of their b vectors; scale returns
\* InvalidKeyLength whenever the length of s differs from the key's; a key
\* that scale returns has |a| = |b| = the length of the input key, with the
\* entries a[i] * s[i] and b[i] * s[i].
C12_MismatchRejected ==
  /\ kcomp.status # "none" =>
       ((Len(ksplit.left.a) # Len(ksplit.right.a)
          \/ Len(ksplit.left.b) # Len(ksplit.right.b))
        => kcomp.status = "InvalidKeyLength")
  /\ kscale.status # "none" =>
       /\ (Len(kscale.s_vec) # Len(key.a) \/ Len(kscale.s_vec) # Len(key.b))
            => kscale.status = "InvalidKeyLength"
       /\ kscale.status = "ok" =>
            /\ Len(kscale.key.a) = Len(key.a) /\ Len(kscale.key.b) = Len(key.a)
            /\ \A i \in 1..Len(key.a) :
                 /\ kscale.key.a[i] = (key.a[i] * kscale.s_vec[i]) % GroupOrder
                 /\ kscale.key.b[i] = (key.b[i] * kscale.s_vec[i]) % GroupOrder

\* C13: for a key with |a| = |b| = len and 0 <= at <= len, split(at) returns
\* (left, right) with left.a and left.b of length at, right.a and right.b of
\* length len - at, and left followed by right is the original a and b.
C13_SplitPartition ==
  (/\ ksplit.status # "none"
   /\ Len(key.a) = Len(key.b) /\ ksplit.at <= Len(key.a))
  => /\ ksplit.status = "ok"
     /\ Len(ksplit.left.a) = ksplit.at /\ Len(ksplit.left.b) = ksplit.at
     /\ Len(ksplit.right.a) = Len(key.a) - ksplit.at
     /\ Len(ksplit.right.b) = Len(key.a) - ksplit.at
     /\ ksplit.left.a \o ksplit.right.a = key.a
     /\ ksplit.left.b \o ksplit.right.b = key.b
C13_Witness ==
  /\ Len(key.a) = 4 /\ Len(key.b) = 4
  /\ ksplit.status = "ok" /\ ksplit.at = 1
  /\ ksplit.left.a # <<>> /\ Len(ksplit.right.b) = 3
  /\ \E i, j \in 1..4 : key.a[i] # key.a[j]

\* ========================================= inner-product primitives
\* sum of the entrywise products of two vectors of one length
RECURSIVE DotFrom(_, _, _)
DotFrom(l, r, i) ==
  IF i > Len(l) THEN 0 ELSE (l[i] * r[i] + DotFrom(l, r, i + 1)) % GroupOrder

\* E::multi_miller_loop: the product of the pairings e(left[i], right[i])
multi_miller_loop(left, right) == DotFrom(left, right, 1)

\* E::final_exponentiation: None only on a zero Miller-loop output, which the
\* Miller loop of curve points never is
final_exponentiation(m) == [some |-> TRUE, val |-> m]

\* VariableBaseMSM::msm: Err when the lengths differ
msm(bases, scalars) ==
  IF Len(bases) # Len(scalars) THEN [status |-> "Err"]
  ELSE [status |-> "ok", val |-> DotFrom(bases, scalars, 1)]

\* ip::pairing_miller_affine
pairing_miller_affine(left, right) ==
  IF Len(left) # Len(right) THEN [status |-> "InvalidIPVectorLength"]
  ELSE [status |-> "ok", val |-> multi_miller_loop(left, right)]

\* ip::pairing
pairing(left, right) ==
  LET miller_result == pairing_miller_affine(left, right) IN
  IF miller_result.status # "ok" THEN miller_result
  ELSE LET f == final_exponentiation(miller_result.val) IN
       IF f.some THEN [status |-> "ok", val |-> f.val]
       ELSE [status |-> "InvalidPairing"]

\* ip::multiexponentiation
multiexponentiation(left, right) ==
  IF Len(left) # Len(right) THEN [status |-> "InvalidPairing"]
  ELSE LET r == msm(left, right) IN
       IF r.status = "ok" THEN r ELSE [status |-> "InvalidIPVectorLength"]

\* ------------------------------------ specification: the primitives
InitIp ==
  /\ \E ll \in 0..(MaxVec + 1), lr \in 0..(MaxVec + 1),
        sl \in 0..NumSeeds, sr \in 0..NumSeeds :
       ipin = [left |-> VecOf(ll, sl), right |-> VecOf(lr, sr + 1)]
  /\ ipres = [op |-> "none", status |-> "none"]

\* ip::pairing(&left, &right)
CallPairing ==
  /\ ipres.op = "none"
  /\ ipres' = pairing(ipin.left, ipin.right) @@ [op |-> "pairing"]
  /\ UNCHANGED <<ipin, notIpVars>>

\* ip::multiexponentiation(&left, &right)
CallMultiexp ==
  /\ ipres.op = "none"
  /\ ipres' = multiexponentiation(ipin.left, ipin.right) @@ [op |-> "multiexponentiation"]
  /\ UNCHANGED <<ipin, notIpVars>>

NextIp == CallPairing \/ CallMultiexp

\* ------------------------------------------ claims on the primitives
\* C9: pairing and multiexponentiation answer vectors of different lengths
\* with InvalidIPVectorLength, and InvalidPairing is returned only when the
\* final exponentiation or the multi-scalar multiplication itself fails.
C9_MismatchIsVectorLength ==
  ipres.op # "none" =>
    /\ Len(ipin.left) # Len(ipin.right) => ipres.status = "InvalidIPVectorLength"
    /\ ipres.status = "InvalidPairing" =>
         /\ Len(ipin.left) = Len(ipin.right)
         /\ \/ ipres.op = "pairing"
               /\ ~final_exponentiation(multi_miller_loop(ipin.left, ipin.right)).some
            \/ ipres.op = "multiexponentiation"
               /\ msm(ipin.left, ipin.right).status # "ok"

\* ================================================== pair commitments
Pending == [status |-> "pending"]
\* the parallel tasks of a commitment function, in the order try_par! names them
Tasks(fn) == IF fn = "single_g1" THEN <<"a", "b">> ELSE <<"t1", "t2", "u1", "u2">>
TaskSet(fn) == {Tasks(fn)[i] : i \in 1..Len(Tasks(fn))}

\* the expression try_par! gives a task of single_g1 or pair
TaskResult(in, t) ==
  CASE t = "a"  -> pairing(in.a, in.vkey.a)
    [] t = "b"  -> pairing(in.a, in.vkey.b)
    [] t = "t1" -> pairing(in.a, in.vkey.a)
    [] t = "t2" -> pairing(in.wkey.a, in.b)
    [] t = "u1" -> pairing(in.a, in.vkey.b)
    [] t = "u2" -> pairing(in.wkey.b, in.b)

\* try_par!: once every task has run, the results are unwrapped in the order
\* the tasks are named; the first error is returned
FirstError(fn, sl) ==
  LET bad == {i \in 1..Len(Tasks(fn)) : sl[Tasks(fn)[i]].status # "ok"} IN
  IF bad = {} THEN [status |-> "ok"] ELSE sl[Tasks(fn)[Min(bad)]]

\* commitment::single_g1, after its tasks
single_g1(sl) ==
  LET e == FirstError("single_g1", sl) IN
  IF e.status # "ok" THEN e
  ELSE [status |-> "ok", out |-> Output(sl["a"].val, sl["b"].val)]

\* commitment::pair, after its tasks: t1.mul_assign(&t2), u1.mul_assign(&u2)
pair(sl) ==
  LET e == FirstError("pair", sl) IN
  IF e.status # "ok" THEN e
  ELSE [status |-> "ok",
        out |-> Output(GAdd(sl["t1"].val, sl["t2"].val),
                       GAdd(sl["u1"].val, sl["u2"].val))]

\* -------------------------------- specification: the commitments
Calls == 1..2
InitCommit ==
  /\ \E fn \in {"single_g1", "pair"},
        lens \in [1..6 -> (MaxVec - 1)..MaxVec] :
       cin = [fn |-> fn,
              vkey |-> [a |-> VecOf(lens[1], 1), b |-> VecOf(lens[2], 2)],
              wkey |-> [a |-> VecOf(lens[3], 3), b |-> VecOf(lens[4], 0)],
              a |-> VecOf(lens[5], 2),
              b |-> VecOf(lens[6], 4)]
  /\ slots = [c \in Calls |-> [t \in TaskSet(cin.fn) |-> Pending]]
  /\ order = [c \in Calls |-> <<>>]
  /\ cout = [c \in Calls |-> [status |-> "none"]]

RunTaskByArrival(c, t) ==
  /\ slots[c][t] = Pending
  /\ LET free == {i \in 1..Len(Tasks(cin.fn)) : slots[c][Tasks(cin.fn)[i]] = Pending}
         into == Tasks(cin.fn)[Min(free)]
     IN slots' = [slots EXCEPT ![c][into] = TaskResult(cin, t)]
  /\ order' = [order EXCEPT ![c] = Append(@, t)]
  /\ UNCHANGED <<cin, cout, notCommitVars>>

\* one task of call c runs to its end and stores its result in its own variable
RunTask(c, t) ==
  /\ slots[c][t] = Pending
  /\ slots' = [slots EXCEPT ![c][t] = TaskResult(cin, t)]
  /\ order' = [order EXCEPT ![c] = Append(@, t)]
  /\ UNCHANGED <<cin, cout, notCommitVars>>

\* every task of call c has run: the call returns
Return(c) ==
  /\ cout[c].status = "none"
  /\ \A t \in TaskSet(cin.fn) : slots[c][t] # Pending
  /\ cout' = [cout EXCEPT ![c] = IF cin.fn = "single_g1" THEN single_g1(slots[c])
                                 ELSE pair(slots[c])]
  /\ UNCHANGED <<cin, slots, order, notCommitVars>>

Run == \E c \in Calls : \E t \in TaskSet(cin.fn) : RunTask(c, t)
Ret == \E c \in Calls : Return(c)
NextCommit == Run \/ Ret

\* ------------------------------------------ claims on the commitments
\* C7: two calls of single_g1, or of pair, on identical inputs return
\* identical results (the same Output (T, U), or the same error), however
\* the parallel tasks of each call are scheduled.
C7_Deterministic ==
  (cout[1].status # "none" /\ cout[2].status # "none") => cout[1] = cout[2]
C7_Witness ==
  /\ cin.fn = "pair"
  /\ cout[1].status = "ok" /\ cout[2].status = "ok"
  /\ order[1] = <<"t1", "t2", "u1", "u2">>
  /\ order[2] = <<"u2", "t2", "u1", "t1">>

\* the vectors a commitment function is given all have one length
CommonLength(in) ==
  IF in.fn = "single_g1"
  THEN Len(in.a) = Len(in.vkey.a) /\ Len(in.a) = Len(in.vkey.b)
  ELSE \A n \in {Len(in.b), Len(in.vkey.a), Len(in.vkey.b),
                  Len(in.wkey.a), Len(in.wkey.b)} : n = Len(in.a)

\* C8: single_g1 and pair return an error whenever their inputs do not all
\* have one common length.
C8_LengthMismatchIsError ==
  \A c \in Calls :
    (cout[c].status # "none" /\ ~CommonLength(cin)) => cout[c].status # "ok"

\* ----------------------------------------------------- specifications
IdleProof ==
  /\ proof = MkProof(2, <<1, 1, 1, 1>>, 0)
  /\ sink = [limited |-> FALSE, cap |-> 0]
  /\ buf = <<>> /\ wres = "none" /\ tampered = "no"
  /\ rres = NoRead /\ pres = "none"
IdleSize == ssize = [status |-> "none"]
IdleReadCheck == prres = "none"
IdleKey ==
  /\ key = [a |-> <<>>, b |-> <<>>]
  /\ ksplit = [status |-> "none"]
  /\ kcomp = [status |-> "none"]
  /\ kscale = [status |-> "none"]
IdleIp ==
  /\ ipin = [left |-> <<>>, right |-> <<>>]
  /\ ipres = [op |-> "none", status |-> "none"]
IdleCommit ==
  /\ cin = [fn |-> "none"]
  /\ slots = <<>> /\ order = <<>> /\ cout = <<>>

\* the aggregate proof: write, read, parsing_check
Init == InitProof /\ IdleKey /\ IdleIp /\ IdleCommit /\ IdleSize /\ IdleReadCheck
Next == NextProof
Spec == Init /\ [][Next]_vars

\* the commitment keys: split, compress, scale
InitK == InitKey /\ IdleProof /\ IdleIp /\ IdleCommit /\ IdleSize /\ IdleReadCheck
SpecKey == InitK /\ [][NextKey]_vars

\* the inner-product primitives: pairing, multiexponentiation
InitI == InitIp /\ IdleProof /\ IdleKey /\ IdleCommit /\ IdleSize /\ IdleReadCheck
SpecIp == InitI /\ [][NextIp]_vars

\* the commitments: two calls of single_g1 or pair on the same inputs
InitC == InitCommit /\ IdleProof /\ IdleKey /\ IdleIp /\ IdleSize /\ IdleReadCheck
SpecCommit == InitC /\ [][NextCommit]_vars

\* the announced size of a GipaProof against the bytes written
InitS == InitSize /\ IdleKey /\ IdleIp /\ IdleCommit /\ IdleReadCheck
SpecSize == InitS /\ [][NextSize]_vars

\* read followed by parsing_check of the proof read
InitR == InitReadCheck /\ IdleKey /\ IdleIp /\ IdleCommit /\ IdleSize
SpecReadCheck == InitR /\ [][NextReadCheck]_vars

====
